---- MODULE Spec2Model ----
(***************************************************************************)
(* The HANDLE_WISHES action of plugin-starknet: content validation         *)
(* (isTransferContent), the conversion of a decimal amount to the token's  *)
(* smallest unit, and the handler in its two versions:                     *)
(*   "plain"  src/packages/plugin-starknet/src/actions/transfer.ts         *)
(*   "book"   src/unnamed/part_000 (with recipient bookkeeping)            *)
(* Strings are sequences of one-character strings; natural numbers that     *)
(* do not fit a machine integer are sequences of decimal digits, most      *)
(* significant first, without leading zeros (zero is the empty sequence).  *)
(***************************************************************************)
EXTENDS Integers, Sequences, FiniteSets, TLC

(***************************************************************************)
(* Characters and strings                                                  *)
(***************************************************************************)
DigitChars == <<"0","1","2","3","4","5","6","7","8","9">>

HexChars ==
    {"0","1","2","3","4","5","6","7","8","9",
     "a","b","c","d","e","f","A","B","C","D","E","F"}

Rep(c, n) == SubSeq([i \in 1..n |-> c], 1, n)

\* String.prototype.startsWith("0x")
StartsWith0x(s) == Len(s) >= 2 /\ s[1] = "0" /\ s[2] = "x"

\* the address length the validation compares with
AddrLen == 66

\* the {64} of the handler's regular expression
HexLen == 64

(***************************************************************************)
(* Natural numbers as digit sequences                                      *)
(***************************************************************************)
RECURSIVE Norm(_)
Norm(x) == IF x = <<>> THEN <<>>
           ELSE IF Head(x) = 0 THEN Norm(Tail(x)) ELSE x

\* 2 * x: the carry into a digit is 1 exactly when the digit after it is >= 5
Mul2(x) ==
    LET n == Len(x)
        c(i) == IF i <= n /\ x[i] >= 5 THEN 1 ELSE 0
    IN  Norm(SubSeq([i \in 1..(n + 1) |->
                        IF i = 1 THEN c(1) ELSE (2 * x[i - 1] + c(i)) % 10],
                    1, n + 1))

\* floor(x / 2): the remainder carried into a digit is the parity of the
\* digit before it
Div2(x) ==
    Norm(SubSeq([i \in 1..Len(x) |->
                    ((IF i > 1 /\ x[i - 1] % 2 = 1 THEN 10 ELSE 0) + x[i]) \div 2],
                1, Len(x)))

IsOdd(x) == x # <<>> /\ x[Len(x)] % 2 = 1

Less(x, y) ==
    \/ Len(x) < Len(y)
    \/ /\ Len(x) = Len(y)
       /\ \E i \in 1..Len(x) :
              x[i] < y[i] /\ \A j \in 1..(i - 1) : x[j] = y[j]

RECURSIVE Inc(_)
Inc(x) ==
    IF x = <<>> THEN <<1>>
    ELSE IF x[Len(x)] < 9 THEN [x EXCEPT ![Len(x)] = @ + 1]
    ELSE Append(Inc(SubSeq(x, 1, Len(x) - 1)), 0)

\* x * 10^d
MulPow10(x, d) == IF x = <<>> THEN <<>> ELSE x \o Rep(0, d)

\* floor(x / 10^f) and whether x mod 10^f is not zero
DivPow10(x, f) == IF Len(x) > f THEN SubSeq(x, 1, Len(x) - f) ELSE <<>>

RemPow10NonZero(x, f) ==
    \E i \in 1..Len(x) : i > Len(x) - f /\ x[i] # 0

(***************************************************************************)
(* IEEE-754 binary64, as far as the handler's arithmetic needs it: a       *)
(* finite double is sign, significand m and binary exponent e, of value    *)
(* m * 2^e with m < 2^53 (subnormals and overflow to Infinity lie outside  *)
(* the amounts and decimals the model draws).                              *)
(***************************************************************************)
Two53 == <<9,0,0,7,1,9,9,2,5,4,7,4,0,9,9,2>>

Two54 == <<1,8,0,1,4,3,9,8,5,0,9,4,8,1,9,8,4>>

NaN == [k |-> "nan", neg |-> FALSE, m |-> <<>>, e |-> 0]

Zero == [k |-> "fin", neg |-> FALSE, m |-> <<>>, e |-> 0]

\* Scale n * 10^-f * 2^e until its integer part has exactly 54 bits; st
\* records that a halving dropped a one.  (e \in Int and the test of st
\* only make TLC evaluate both at every level.)
RECURSIVE Scale54(_, _, _, _)
Scale54(n, f, e, st) ==
    LET q == DivPow10(n, f)
    IN  IF e \in Int /\ Less(q, Two53) THEN Scale54(Mul2(n), f, e - 1, st)
        ELSE IF ~Less(q, Two54)
             THEN IF st \/ IsOdd(n) THEN Scale54(Div2(n), f, e + 1, TRUE)
                                    ELSE Scale54(Div2(n), f, e + 1, FALSE)
        ELSE [n |-> n, e |-> e, st |-> st]

\* The double nearest to n * 10^-f * 2^e (n # 0), ties to even.
RoundToDoubleExact(neg, n, f, e) ==
    LET Round(s) ==
            LET q      == DivPow10(s.n, f)
                m      == Div2(q)
                sticky == s.st \/ RemPow10NonZero(s.n, f)
                up     == IsOdd(q) /\ (sticky \/ IsOdd(m))
            IN  [k |-> "fin", neg |-> neg, m |-> IF up THEN Inc(m) ELSE m,
                 e |-> s.e + 1]
    IN  CHOOSE r \in {Round(s) : s \in {Scale54(n, f, e, FALSE)}} : TRUE

RoundToDouble(neg, n, f, e) ==
    IF n = <<>> THEN Zero ELSE RoundToDoubleExact(neg, n, f, e)

RECURSIVE Shl(_, _)
Shl(x, n) == IF n = 0 \/ x = <<>> THEN x ELSE Shl(Mul2(x), n - 1)

RECURSIVE Shr(_, _)
Shr(x, n) == IF n = 0 \/ x = <<>> THEN x ELSE Shr(Div2(x), n - 1)

\* whether x mod 2^n is not zero
RECURSIVE LowBits(_, _)
LowBits(x, n) == n > 0 /\ (IsOdd(x) \/ LowBits(Div2(x), n - 1))

(***************************************************************************)
(* JavaScript values of the content object: undefined, null, a string, or  *)
(* a number.  A number is named by the decimal literal that produced it     *)
(* (sign, digits, count of fractional digits); its double is DoubleOf.      *)
(***************************************************************************)
DecNaN == [k |-> "nan", neg |-> FALSE, dig |-> <<>>, frac |-> 0]

Dec(neg, dig, frac) == [k |-> "dec", neg |-> neg, dig |-> dig, frac |-> frac]

JsUndefined == [t |-> "undefined", s |-> <<>>, n |-> DecNaN]

JsNull == [t |-> "null", s |-> <<>>, n |-> DecNaN]

JsString(s) == [t |-> "string", s |-> s, n |-> DecNaN]

JsNumber(d) == [t |-> "number", s |-> <<>>, n |-> d]

\* true and false, which carry their numeric value 1 and 0
JsBoolean(b) ==
    [t |-> "boolean", s |-> <<>>,
     n |-> Dec(FALSE, IF b THEN <<1>> ELSE <<>>, 0)]

\* typeof v
TypeOf(v) == IF v.t = "null" THEN "object" ELSE v.t

\* ToBoolean(v), as in `if (v)` and `!v`
ToBoolean(v) ==
    CASE v.t = "string" -> v.s # <<>>
      [] v.t = "number" -> v.n.k = "dec" /\ v.n.dig # <<>>
      [] v.t = "boolean" -> v.n.dig # <<>>
      [] OTHER          -> FALSE

\* v ?? w
Nullish(v) == v.t \in {"undefined", "null"}

IsDigit(c) == \E i \in 1..10 : DigitChars[i] = c

DigitVal(c) == (CHOOSE i \in 1..10 : DigitChars[i] = c) - 1

\* Number(s) of a string of digits, ".", and a sign (no white space, no
\* exponent, no 0x prefix, no "Infinity": the strings drawn hold none).
StringToNumber(s) ==
    LET signed == s # <<>> /\ s[1] \in {"-", "+"}
        neg    == s # <<>> /\ s[1] = "-"
        b      == IF signed THEN Tail(s) ELSE s
        hasDot == \E i \in 1..Len(b) : b[i] = "."
        dot    == IF hasDot THEN CHOOSE i \in 1..Len(b) :
                                     b[i] = "." /\ \A j \in 1..(i - 1) : b[j] # "."
                  ELSE Len(b) + 1
        ip     == SubSeq(b, 1, dot - 1)
        fp     == SubSeq(b, dot + 1, Len(b))
        ds     == ip \o fp
    IN  IF s = <<>> THEN Dec(FALSE, <<>>, 0)
        ELSE IF ds # <<>> /\ \A i \in 1..Len(ds) : IsDigit(ds[i])
             THEN Dec(neg, Norm(SubSeq([i \in 1..Len(ds) |-> DigitVal(ds[i])], 1, Len(ds))),
                      Len(fp))
             ELSE DecNaN

\* Number(v)
ToNumber(v) ==
    CASE v.t = "number"    -> v.n
      [] v.t = "boolean"   -> v.n
      [] v.t = "string"    -> StringToNumber(v.s)
      [] v.t = "null"      -> Dec(FALSE, <<>>, 0)
      [] OTHER             -> DecNaN

\* the double a decimal literal denotes
DoubleOf(d) ==
    IF d.k = "nan" THEN NaN ELSE RoundToDouble(d.neg, d.dig, d.frac, 0)

\* a * Math.pow(10, d): Math.pow(10, d) is exact for 0 <= d <= 22, so the
\* product is the exact product rounded once.
TimesPow10(a, d) ==
    IF a.k = "nan" THEN NaN
    ELSE RoundToDouble(a.neg, MulPow10(a.m, d), 0, a.e)

\* Math.floor(a): an integer-valued double, by sign and digits
MathFloor(a) ==
    IF a.k = "nan" THEN [k |-> "nan", neg |-> FALSE, dig |-> <<>>]
    ELSE IF a.e >= 0 THEN [k |-> "int", neg |-> a.neg, dig |-> Shl(a.m, a.e)]
    ELSE LET fl == Shr(a.m, 0 - a.e)
         IN  [k |-> "int", neg |-> a.neg,
              dig |-> IF a.neg /\ LowBits(a.m, 0 - a.e) THEN Inc(fl) ELSE fl]

\* Number.prototype.toString switches to exponent notation at 10^21
ExpNotationDigits == 21

\* whether the decimal integer c, read back as a double, is the integer n
ReadsBackAs(c, n) == MathFloor(RoundToDouble(FALSE, c, 0, 0)).dig = n

\* The k-digit decimal, followed by zeros, that reads back as n, or <<>>
\* when there is none; of two, the one nearer to n, and the even one when
\* they are equally near.
ShortestAt(n, k) ==
    LET z    == Len(n) - k
        head == SubSeq(n, 1, k)
        lo   == head \o Rep(0, z)
        hi   == Inc(head) \o Rep(0, z)
        r2   == Mul2(Norm(SubSeq(n, k + 1, Len(n))))
        unit == <<1>> \o Rep(0, z)
        Pick(okLo, okHi) ==
            IF okLo /\ okHi
            THEN (IF Less(r2, unit) THEN lo
                  ELSE IF Less(unit, r2) THEN hi
                  ELSE IF IsOdd(head) THEN hi ELSE lo)
            ELSE IF okLo THEN lo
            ELSE IF okHi THEN hi
            ELSE <<>>
    IN  CHOOSE r \in {Pick(okLo, okHi) : okLo \in {ReadsBackAs(lo, n)},
                                         okHi \in {ReadsBackAs(hi, n)}} : TRUE

\* The digits Number::toString prints for the integer-valued double n: the
\* fewest significant digits that read back as n, then zeros.
RECURSIVE ShortestDigits(_, _)
ShortestDigits(n, k) ==
    IF k >= Len(n) THEN n
    ELSE CHOOSE r \in {IF at # <<>> THEN at ELSE ShortestDigits(n, k + 1) :
                       at \in {ShortestAt(n, k)}} : TRUE

\* x.toString() of an integer-valued double.  Below 2^53 every integer is
\* a double, so all its digits are printed.  In exponent notation only the
\* first digit is kept here: only BigInt reads the string, and it rejects
\* the "e".
NumberToString(x) ==
    LET Chars(sd) == SubSeq([i \in 1..Len(sd) |-> DigitChars[sd[i] + 1]],
                            1, Len(sd))
        ds == CHOOSE r \in
                  {Chars(sd) : sd \in {IF Less(x.dig, Two53) THEN x.dig
                                       ELSE ShortestDigits(x.dig, 1)}} : TRUE
    IN  IF x.k = "nan" THEN <<"N", "a", "N">>
        ELSE IF x.dig = <<>> THEN <<"0">>
        ELSE IF Len(x.dig) > ExpNotationDigits
             THEN (IF x.neg THEN <<"-">> ELSE <<>>) \o <<DigitChars[x.dig[1] + 1]>>
                  \o <<"e", "+">>
        ELSE (IF x.neg THEN <<"-">> ELSE <<>>) \o ds

\* BigInt(s): a SyntaxError unless s is an optional "-" and decimal digits
BigIntOf(s) ==
    LET neg == s # <<>> /\ s[1] = "-"
        b   == IF neg THEN Tail(s) ELSE s
        v   == Norm(SubSeq([i \in 1..Len(b) |-> DigitVal(b[i])], 1, Len(b)))
    IN  IF b # <<>> /\ \A i \in 1..Len(b) : IsDigit(b[i])
        THEN [ok |-> TRUE, neg |-> neg /\ v # <<>>, dig |-> v]
        ELSE [ok |-> FALSE, neg |-> FALSE, dig |-> <<>>]

\* amountWei of the handler: BigInt(Math.floor(Number(amount) *
\* Math.pow(10, Number(decimals))).toString())
\* (Each stage below is bound by CHOOSE over a one-element set, here and in
\* the operators above, so that a stage is evaluated once and not once for
\* every place the next stage reads it.)
AmountWeiOf(amount, decimals) ==
    CHOOSE amountWei \in
        {BigIntOf(str) : str \in
            {NumberToString(amountInteger) : amountInteger \in
                {MathFloor(product) : product \in
                    {TimesPow10(number, decimals) : number \in
                        {DoubleOf(ToNumber(amount))}}}}} : TRUE

\* amount * 10^decimals truncated toward zero, in exact arithmetic
ExactMinorUnits(d, decimals) ==
    Norm(DivPow10(MulPow10(d.dig, decimals), d.frac))

(***************************************************************************)
(* Addresses and messages                                                  *)
(***************************************************************************)
\* PROVIDER_CONFIG.TOKEN_ADDRESSES.STRK, as the template lists it
STRK ==
    <<"0","x","0","4","7","1","8","f","5","a","0","f","c","3","4","c","c",
      "1","a","f","1","6","a","1","c","d","e","e","9","8","f","f","b","2",
      "0","c","3","1","f","5","c","d","6","1","d","6","a","b","0","7","2",
      "0","1","8","5","8","f","4","2","8","7","c","9","3","8","d">>

\* the address of the action's examples
AddrA ==
    <<"0","x","0","6","9","a","4","1","9","C","6","e","b","a","b","0","a",
      "6","a","A","7","4","C","A","8","e","0","b","C","F","D","9","b","3",
      "b","1","7","c","9","8","5","9","0","1","D","c","0","0","e","9","B",
      "a","D","2","5","c","b","D","0","5","e","7","5","3","4","3">>

\* the address of the template's example response
AddrB ==
    <<"0","x","1","2","3","4","5","6","7","8","9","0","A","B","C","D","E",
      "F","1","2","3","4","5","6","7","8","9","0","A","B","C","D","E","F",
      "1","2","3","4","5","6","7","8","9","0","A","B","C","D","E","F","1",
      "2","3","4","5","6","7","8","9","0","A","B","C","D","E","F">>

\* 66 characters after "0x" that are not all hexadecimal
AddrNotHex == <<"0", "x">> \o Rep("a", HexLen - 1) \o <<"g">>

\* 66 characters without the prefix
AddrNoPrefix == Rep("a", AddrLen)

AddrShort == <<"0", "x", "a", "b", "c">>

Greeting == <<"H", "N", "Y", "!", " ">>

\* recent messages: no address; one address; a near miss, then two addresses
MsgNone == Greeting \o <<"0", "x", "0", "6", "9", "a">>

MsgOne == Greeting \o AddrA

MsgTwo == AddrNotHex \o <<" ">> \o AddrA \o <<" ">> \o AddrB

Messages == {MsgNone, MsgOne, MsgTwo}

\* /0x[a-fA-F0-9]{64}/ matches at position i of s
MatchAt(s, i) ==
    /\ i + HexLen + 1 <= Len(s)
    /\ s[i] = "0"
    /\ s[i + 1] = "x"
    /\ \A j \in 2..(HexLen + 1) : s[i + j] \in HexChars

\* a match that takes the rightmost address of the messages
RegexMatchLast(s) ==
    IF \E i \in 1..Len(s) : MatchAt(s, i)
    THEN LET i == CHOOSE k \in 1..Len(s) :
                      MatchAt(s, k) /\ \A j \in (k + 1)..Len(s) : ~MatchAt(s, j)
         IN  <<SubSeq(s, i, i + HexLen + 1)>>
    ELSE <<>>

\* s.match(/0x[a-fA-F0-9]{64}/): the array of the leftmost match, or null
RegexMatch(s) ==
    IF \E i \in 1..Len(s) : MatchAt(s, i)
    THEN LET i == CHOOSE k \in 1..Len(s) :
                      MatchAt(s, k) /\ \A j \in 1..(k - 1) : ~MatchAt(s, j)
         IN  <<SubSeq(s, i, i + HexLen + 1)>>
    ELSE <<>>

(***************************************************************************)
(* isStarkDomain is imported from ../utils/starknetId: a non-empty label   *)
(* of ASCII letters, digits and hyphens followed by ".stark".               *)
(***************************************************************************)
LabelChars ==
    HexChars \cup
    {"g","h","i","j","k","l","m","n","o","p","q","r","s","t","u","v","w","x",
     "y","z","G","H","I","J","K","L","M","N","O","P","Q","R","S","T","U","V",
     "W","X","Y","Z","-"}

StarkSuffix == <<".", "s", "t", "a", "r", "k">>

isStarkDomain(s) ==
    /\ Len(s) > Len(StarkSuffix)
    /\ SubSeq(s, Len(s) - Len(StarkSuffix) + 1, Len(s)) = StarkSuffix
    /\ \A i \in 1..(Len(s) - Len(StarkSuffix)) : s[i] \in LabelChars

(***************************************************************************)
(* isTransferContent                                                       *)
(***************************************************************************)
\* ValidTypes with the test of recipient and starkName left out
ValidTypesAnyRecipient(content) ==
    /\ TypeOf(content.tokenAddress) = "string"
    /\ \/ TypeOf(content.amount) = "string"
       \/ TypeOf(content.amount) = "number"

ValidTypes(content) ==
    /\ TypeOf(content.tokenAddress) = "string"
    /\ \/ TypeOf(content.recipient) = "string"
       \/ TypeOf(content.starkName) = "string"
    /\ \/ TypeOf(content.amount) = "string"
       \/ TypeOf(content.amount) = "number"

ValidTokenAddress(content) ==
    /\ StartsWith0x(content.tokenAddress.s)
    /\ Len(content.tokenAddress.s) = AddrLen

ValidRecipient(content) ==
    /\ StartsWith0x(content.recipient.s)
    /\ Len(content.recipient.s) = AddrLen

isTransferContent(content) ==
    IF ~ValidTypes(content) THEN FALSE
    ELSE IF ~ValidTokenAddress(content) THEN FALSE
    ELSE IF ToBoolean(content.recipient) THEN ValidRecipient(content)
    ELSE IF ToBoolean(content.starkName) THEN isStarkDomain(content.starkName.s)
    ELSE TRUE

(***************************************************************************)
(* What the handler is given                                               *)
(***************************************************************************)
\* the handler invocations that may be in progress at once (SpecConc)
NumProcs == 2

\* how many times the handler is invoked in all
MaxInvocations == 2

Procs == 1..NumProcs

Variants == {"plain", "book"}

\* state.userId
Users == {"u1", "u2"}

OneUser == {"u1"}

\* what generateObjectDeprecated may extract: recipient, starkName, amount
Llm(r, s, a) == [recipient |-> r, starkName |-> s, amount |-> a]

LlmContents ==
    { Llm(JsUndefined, JsUndefined, JsNull),
      Llm(JsUndefined, JsUndefined, JsString(<<"2">>)),
      Llm(JsUndefined, JsUndefined, JsString(<<"1", "0">>)),
      Llm(JsUndefined, JsUndefined, JsString(<<"-", "1">>)),
      Llm(JsUndefined, JsUndefined, JsString(<<"a", "b", "c">>)),
      Llm(JsUndefined, JsUndefined, JsBoolean(TRUE)),
      Llm(JsString(AddrB),
          JsString(<<"d", "o", "m", "a", "i", "n">> \o StarkSuffix),
          JsString(<<"0", ".", "0", "0", "1">>)) }

\* Math.random() * 4 + 1 in thousandths, as toFixed(3) rounds it: 1000..5000
RandomDraws == {1000, 2500, 4350, 5000}

\* what erc20Token.decimals() may answer
DecimalsAnswers == {6, 18}

\* x.toFixed(3) of a draw in thousandths
ToFixed3(r) ==
    << DigitChars[(r \div 1000) + 1], ".",
       DigitChars[((r \div 100) % 10) + 1],
       DigitChars[((r \div 10) % 10) + 1],
       DigitChars[(r % 10) + 1] >>

\* Number((Math.random() * 4 + 1).toFixed(3))
RandomAmount(r) == JsNumber(StringToNumber(ToFixed3(r)))

\* every value content.amount can take, and the conversion of each for each
\* answer of decimals(), computed once
Amounts ==
    {l.amount : l \in LlmContents} \cup {RandomAmount(r) : r \in RandomDraws}

AmountWeiTable ==
    {<<a, d, AmountWeiOf(a, d)>> : a \in Amounts, d \in DecimalsAnswers}

AmountWei(amount, decimals) ==
    (CHOOSE t \in AmountWeiTable : t[1] = amount /\ t[2] = decimals)[3]

(***************************************************************************)
(* State                                                                   *)
(***************************************************************************)
VARIABLES
    inv,        \* inv[p]: the handler invocation of p (its locals and position)
    db,         \* the recipients table behind runtime.databaseAdapter
    submitted,  \* the transfers handed to account.execute, in order
    ninv,       \* invocations started
    vcontent,   \* the content given to isTransferContent (SpecValidate)
    vresult     \* its result, "none" before the call

vars == <<inv, db, submitted, ninv, vcontent, vresult>>

NoContent ==
    [tokenAddress |-> JsUndefined, recipient |-> JsUndefined,
     starkName |-> JsUndefined, amount |-> JsUndefined]

NoWei == [ok |-> FALSE, neg |-> FALSE, dig |-> <<>>]

NoCalls ==
    [getRecipient |-> 0, addRecipient |-> 0, decimals |-> 0, name |-> 0,
     execute |-> 0]

Idle ==
    [pc |-> "idle", hv |-> "plain", userId |-> "u1", recentMessages |-> <<>>,
     hasCallback |-> FALSE, match |-> <<>>, content |-> NoContent,
     decimals |-> 0, amountWei |-> NoWei, to |-> <<>>, calls |-> NoCalls,
     callbacks |-> <<>>, failed |-> "none", ret |-> "none",
     cancelled |-> FALSE]

Init ==
    /\ inv = [p \in Procs |-> Idle]
    /\ db = {}
    /\ submitted = <<>>
    /\ ninv = 0
    /\ vcontent = NoContent
    /\ vresult = "none"

(***************************************************************************)
(* The handler, one action per stretch of code between two awaits.  The    *)
(* record h is the invocation's locals.                                    *)
(***************************************************************************)
\* callback({text, content: {error: msg}}), when a callback was supplied
CallbackError(h, msg) ==
    IF h.hasCallback THEN Append(h.callbacks, [kind |-> "error", message |-> msg])
    ELSE h.callbacks

\* callback({text, content: {}}), when a callback was supplied
CallbackSuccess(h) ==
    IF h.hasCallback THEN Append(h.callbacks, [kind |-> "success", message |-> ""])
    ELSE h.callbacks

\* return false, with nothing said to the callback
ReturnFalse(h) == [h EXCEPT !.pc = "done", !.ret = "false"]

\* the catch block: the error goes to the callback, then return false
Catch(h, what, msg) ==
    [h EXCEPT !.pc = "done", !.ret = "false", !.failed = what,
              !.callbacks = CallbackError(h, msg)]

\* from the validation of the content to the call of erc20Token.decimals()
ValidateAndCallDecimals(h) ==
    IF ~isTransferContent(h.content)
    THEN [h EXCEPT !.pc = "done", !.ret = "false",
                   !.callbacks = CallbackError(h, "Invalid transfer content")]
    ELSE [h EXCEPT !.pc = "decimals", !.calls.decimals = @ + 1]

\* content.amount after the random draw r: the plain handler always draws,
\* the bookkeeping handler only when the extracted amount is falsy
AmountAfterDraw(hv, amount, r) ==
    IF hv = "plain" \/ ~ToBoolean(amount) THEN RandomAmount(r) ELSE amount

\* the name preferred to the address whenever a name was extracted
NeedsNameResolutionByName(content) ==
    Nullish(content.recipient) \/ ToBoolean(content.starkName)

\* content.recipient ?? (await getAddressFromName(account, content.starkName))
NeedsNameResolution(content) == Nullish(content.recipient)

\* The handler is called: the state is composed, the address is looked for
\* in the recent messages, generateObjectDeprecated is called.
Invoke(p, Vs, Ms, Us, Cs) ==
    /\ inv[p].pc \in {"idle", "done"}
    /\ ninv < MaxInvocations
    /\ \E v \in Vs, m \in Ms, u \in Us, c \in Cs :
          inv' = [inv EXCEPT ![p] =
                     [Idle EXCEPT !.pc = "generate", !.hv = v, !.userId = u,
                                  !.recentMessages = m, !.hasCallback = c,
                                  !.match = RegexMatch(m)]]
    /\ ninv' = ninv + 1
    /\ UNCHANGED <<db, submitted, vcontent, vresult>>

\* generateObjectDeprecated answers: token address, recipient and amount are
\* set; the plain handler validates and calls decimals(), the bookkeeping
\* handler calls getRecipient.
GenerateReturn(p, Ls, Rs) ==
    /\ inv[p].pc = "generate"
    /\ \E l \in Ls, r \in Rs :
          LET h  == inv[p]
              c  == [tokenAddress |-> JsString(STRK),
                     recipient    |-> JsString(h.match[1]),
                     starkName    |-> l.starkName,
                     amount       |-> AmountAfterDraw(h.hv, l.amount, r)]
              h1 == [h EXCEPT !.content = c]
          IN  inv' = [inv EXCEPT ![p] =
                         IF h.match = <<>>
                         THEN ReturnFalse([h EXCEPT !.content =
                                  [tokenAddress |-> JsString(STRK),
                                   recipient    |-> l.recipient,
                                   starkName    |-> l.starkName,
                                   amount       |-> l.amount]])
                         ELSE IF h.hv = "plain" THEN ValidateAndCallDecimals(h1)
                         ELSE [h1 EXCEPT !.pc = "getRecipient",
                                         !.calls.getRecipient = @ + 1]]
    /\ UNCHANGED <<db, submitted, ninv, vcontent, vresult>>

\* a lookup that knows no recipient
RecipientExistsNever(table, recipient, userId) == FALSE

\* databaseAdapter.getRecipient(recipient, userId)
RecipientExists(table, recipient, userId) ==
    \E row \in table : row.recipient = recipient /\ row.userId = userId

\* getRecipient answers: a known recipient ends the invocation, otherwise
\* addRecipient is called.
GetRecipientReturn(p) ==
    /\ inv[p].pc = "getRecipient"
    /\ LET h == inv[p]
       IN  inv' = [inv EXCEPT ![p] =
                      IF RecipientExists(db, h.content.recipient.s, h.userId)
                      THEN ReturnFalse(h)
                      ELSE [h EXCEPT !.pc = "addRecipient",
                                     !.calls.addRecipient = @ + 1]]
    /\ UNCHANGED <<db, submitted, ninv, vcontent, vresult>>

\* addRecipient wrote the row and answers true: the content is validated and
\* decimals() is called.
AddRecipientReturn(p) ==
    /\ inv[p].pc = "addRecipient"
    /\ LET h == inv[p]
       IN  /\ db' = db \cup {[recipient |-> h.content.recipient.s,
                              userId    |-> h.userId,
                              amount    |-> h.content.amount]}
           /\ inv' = [inv EXCEPT ![p] = ValidateAndCallDecimals(h)]
    /\ UNCHANGED <<submitted, ninv, vcontent, vresult>>

\* addRecipient answers false
AddRecipientFail(p) ==
    /\ inv[p].pc = "addRecipient"
    /\ inv' = [inv EXCEPT ![p] = ReturnFalse(inv[p])]
    /\ UNCHANGED <<db, submitted, ninv, vcontent, vresult>>

\* the invocation after decimals() answered d: the amount is converted (a
\* BigInt that cannot be built is thrown and caught), the recipient is
\* taken, account.execute is called.
AfterDecimals(h, d) ==
    LET wei == AmountWei(h.content.amount, d)
    IN  IF ~wei.ok
        THEN Catch([h EXCEPT !.decimals = d], "bigint", "Cannot convert to a BigInt")
        ELSE IF NeedsNameResolution(h.content)
        THEN [h EXCEPT !.pc = "resolveName", !.decimals = d, !.amountWei = wei,
                       !.calls.name = @ + 1]
        ELSE [h EXCEPT !.pc = "execute", !.decimals = d, !.amountWei = wei,
                       !.to = h.content.recipient.s, !.calls.execute = @ + 1]

DecimalsReturn(p, Ds) ==
    /\ inv[p].pc = "decimals"
    /\ \E d \in Ds :
          LET h1 == AfterDecimals(inv[p], d)
          IN  /\ inv' = [inv EXCEPT ![p] = h1]
              /\ submitted' =
                     IF h1.pc = "execute"
                     THEN Append(submitted,
                                 [recipient |-> h1.to, userId |-> h1.userId,
                                  hv |-> h1.hv])
                     ELSE submitted
    /\ UNCHANGED <<db, ninv, vcontent, vresult>>

\* decimals() called once more after it rejected
AfterDecimalsFailRetry(h) ==
    IF h.calls.decimals < 2 THEN [h EXCEPT !.calls.decimals = @ + 1]
    ELSE Catch(h, "decimals", "decimals failed")

\* the invocation after decimals() rejected
AfterDecimalsFail(h) == Catch(h, "decimals", "decimals failed")

DecimalsFail(p) ==
    /\ inv[p].pc = "decimals"
    /\ inv' = [inv EXCEPT ![p] = AfterDecimalsFail(inv[p])]
    /\ UNCHANGED <<db, submitted, ninv, vcontent, vresult>>

\* account.execute answers with a transaction hash
ExecuteReturn(p) ==
    /\ inv[p].pc = "execute"
    /\ inv' = [inv EXCEPT ![p] =
                  [inv[p] EXCEPT !.pc = "done", !.ret = "true",
                                 !.callbacks = CallbackSuccess(inv[p])]]
    /\ UNCHANGED <<db, submitted, ninv, vcontent, vresult>>

\* the invocation after account.execute rejected
AfterExecuteFail(h) == Catch(h, "execute", "execute failed")

ExecuteFail(p) ==
    /\ inv[p].pc = "execute"
    /\ inv' = [inv EXCEPT ![p] = AfterExecuteFail(inv[p])]
    /\ UNCHANGED <<db, submitted, ninv, vcontent, vresult>>

(***************************************************************************)
(* Spec: the runtime runs one invocation at a time.                        *)
(***************************************************************************)
Next ==
    \/ Invoke(1, Variants, Messages, OneUser, BOOLEAN)
    \/ GenerateReturn(1, LlmContents, RandomDraws)
    \/ GetRecipientReturn(1)
    \/ AddRecipientReturn(1)
    \/ AddRecipientFail(1)
    \/ DecimalsReturn(1, DecimalsAnswers)
    \/ DecimalsFail(1)
    \/ ExecuteReturn(1)
    \/ ExecuteFail(1)

Spec == Init /\ [][Next]_vars

(***************************************************************************)
(* SpecConc: NumProcs invocations of the bookkeeping handler interleave at *)
(* their awaits, for two users and one recipient address.                  *)
(***************************************************************************)
ConcLlm == {Llm(JsUndefined, JsUndefined, JsString(<<"2">>))}

NextConc ==
    \E p \in Procs :
        \/ Invoke(p, {"book"}, {MsgOne}, Users, {TRUE})
        \/ GenerateReturn(p, ConcLlm, {2500})
        \/ GetRecipientReturn(p)
        \/ AddRecipientReturn(p)
        \/ AddRecipientFail(p)
        \/ DecimalsReturn(p, {18})
        \/ DecimalsFail(p)
        \/ ExecuteReturn(p)
        \/ ExecuteFail(p)

SpecConc == Init /\ [][NextConc]_vars

(***************************************************************************)
(* SpecCancel: the caller may give up on an invocation that is waiting.    *)
(* The handler takes no cancellation signal (its parameters are runtime,   *)
(* message, state, _options, callback), so the caller's cancellation is a  *)
(* flag that no handler step reads.  The runtime's own services (the model *)
(* call and the database) answer; nothing says that the Starknet provider  *)
(* (decimals, execute) does.                                               *)
(***************************************************************************)
Cancel(p) ==
    /\ inv[p].pc \in {"generate", "getRecipient", "addRecipient", "decimals",
                      "execute"}
    /\ ~inv[p].cancelled
    /\ inv' = [inv EXCEPT ![p].cancelled = TRUE]
    /\ UNCHANGED <<db, submitted, ninv, vcontent, vresult>>

NextCancel ==
    \/ Invoke(1, Variants, {MsgNone, MsgOne}, OneUser, {TRUE})
    \/ GenerateReturn(1, ConcLlm, {2500})
    \/ GetRecipientReturn(1)
    \/ AddRecipientReturn(1)
    \/ AddRecipientFail(1)
    \/ DecimalsReturn(1, {18})
    \/ DecimalsFail(1)
    \/ ExecuteReturn(1)
    \/ ExecuteFail(1)
    \/ Cancel(1)

RuntimeAnswers ==
    \/ GenerateReturn(1, ConcLlm, {2500})
    \/ GetRecipientReturn(1)
    \/ AddRecipientReturn(1)
    \/ AddRecipientFail(1)

SpecCancel == Init /\ [][NextCancel]_vars /\ WF_vars(RuntimeAnswers)

(***************************************************************************)
(* SpecValidate: isTransferContent applied to a content of any shape.      *)
(***************************************************************************)
ValidateTokens ==
    {JsString(STRK), JsString(AddrShort), JsString(AddrNotHex),
     JsString(AddrNoPrefix), JsUndefined}

ValidateRecipients ==
    {JsUndefined, JsNull, JsString(<<>>), JsString(AddrA), JsString(AddrShort),
     JsString(AddrNotHex)}

ValidateNames ==
    {JsUndefined, JsNull,
     JsString(<<"d", "o", "m", "a", "i", "n">> \o StarkSuffix),
     JsString(<<"d", "o", "m", "a", "i", "n", ".", "e", "t", "h">>)}

ValidateAmounts ==
    {JsString(<<"2", ".", "5">>), JsNumber(Dec(FALSE, <<1, 0, 0, 1>>, 3)),
     JsNumber(Dec(FALSE, <<>>, 0)), JsString(<<"0">>), JsString(<<"-", "1">>),
     JsNumber(Dec(TRUE, <<3>>, 0)), JsString(<<"a", "b", "c">>),
     JsNumber(DecNaN), JsNull}

ValidateContents ==
    {[tokenAddress |-> t, recipient |-> r, starkName |-> s, amount |-> a] :
        t \in ValidateTokens, r \in ValidateRecipients, s \in ValidateNames,
        a \in ValidateAmounts}

InitValidate ==
    /\ inv = [p \in Procs |-> Idle]
    /\ db = {}
    /\ submitted = <<>>
    /\ ninv = 0
    /\ vcontent \in ValidateContents
    /\ vresult = "none"

Validate ==
    /\ vresult = "none"
    /\ vresult' = IF isTransferContent(vcontent) THEN "true" ELSE "false"
    /\ UNCHANGED <<inv, db, submitted, ninv, vcontent>>

NextValidate == Validate

SpecValidate == InitValidate /\ [][NextValidate]_vars

(***************************************************************************)
(* Properties                                                              *)
(***************************************************************************)
\* a field that holds a value: a string that is not empty
Supplied(v) == v.t = "string" /\ v.s # <<>>

\* "0x" and 64 hexadecimal characters
IsHexAddress(s) ==
    /\ Len(s) = AddrLen
    /\ StartsWith0x(s)
    /\ \A i \in 3..Len(s) : s[i] \in HexChars

\* a string or a number whose numeric value is finite and greater than 0
PositiveFinite(v) ==
    /\ v.t \in {"string", "number"}
    /\ ToNumber(v).k = "dec"
    /\ ~ToNumber(v).neg
    /\ ToNumber(v).dig # <<>>

\* a numeric value of at least 1 and at most 5
Between1And5(d) ==
    /\ d.k = "dec"
    /\ ~d.neg
    /\ ~Less(DivPow10(d.dig, d.frac), <<1>>)
    /\ \/ Less(DivPow10(d.dig, d.frac), <<5>>)
       \/ DivPow10(d.dig, d.frac) = <<5>> /\ ~RemPow10NonZero(d.dig, d.frac)

C2_OnlyHexAddressesAccepted ==
    vresult = "true" =>
        /\ IsHexAddress(vcontent.tokenAddress.s)
        /\ Supplied(vcontent.recipient) => IsHexAddress(vcontent.recipient.s)

\* C3 as claimed: isTransferContent returns false unless amount is a string
\* or number of finite value greater than 0, so no invocation reaches the
\* transfer step (the call of decimals()) with another amount.
C3_TransferStepAmountPositive ==
    \A p \in Procs :
        inv[p].calls.decimals > 0 => PositiveFinite(inv[p].content.amount)

\* the invocations that called account.execute
Executing(p) == inv[p].calls.execute > 0

\* C4 as claimed: the amount passed to transferCall is the exact value of
\* amount * 10^decimals truncated toward zero, and the conversion never
\* fails for a positive amount.
C4_ExactMinorUnits ==
    \A p \in Procs :
        /\ (Executing(p) /\ PositiveFinite(inv[p].content.amount)) =>
               /\ ~inv[p].amountWei.neg
               /\ inv[p].amountWei.dig =
                      ExactMinorUnits(ToNumber(inv[p].content.amount),
                                      inv[p].decimals)
        /\ inv[p].failed = "bigint" => ~PositiveFinite(inv[p].content.amount)

\* C5: with a recipient address in the content the name resolver is not
\* called and the transfer goes to exactly that address, which is the
\* address matched in the recent messages; the name resolver is called only
\* when the recipient is absent.
C5_RecipientVerbatim ==
    /\ \A p \in Procs :
          /\ Supplied(inv[p].content.recipient) =>
                 inv[p].calls.name = 0 /\ inv[p].pc # "resolveName"
          /\ Executing(p) =>
                 /\ inv[p].to = inv[p].content.recipient.s
                 /\ inv[p].match = <<inv[p].to>>
          /\ inv[p].calls.name > 0 => Nullish(inv[p].content.recipient)
    /\ \A i \in 1..Len(submitted) : submitted[i].recipient = AddrA

\* a transfer was handed to account.execute for a content that also held a
\* starkName
C5_SentWithNamePresent ==
    \E p \in Procs :
        /\ inv[p].pc = "execute"
        /\ inv[p].to = AddrA
        /\ Supplied(inv[p].content.starkName)

\* C6: in one invocation decimals(), the name resolution and
\* account.execute are each called at most once; a call that fails is not
\* made again, and the invocation ends without a later call.
C6_AtMostOnceNoRetry ==
    /\ \A p \in Procs :
          /\ inv[p].calls.decimals <= 1
          /\ inv[p].calls.name <= 1
          /\ inv[p].calls.execute <= 1
          /\ inv[p].failed = "decimals" =>
                 /\ inv[p].pc = "done"
                 /\ inv[p].calls.decimals = 1
                 /\ inv[p].calls.name = 0
                 /\ inv[p].calls.execute = 0
          /\ inv[p].failed = "execute" =>
                 inv[p].pc = "done" /\ inv[p].calls.execute = 1
    /\ Len(submitted) <= ninv

\* decimals() rejected in an invocation
C6_DecimalsFailed ==
    \E p \in Procs : inv[p].failed = "decimals" /\ inv[p].ret = "false"

\* C7 as claimed: whenever the handler returns false and a callback was
\* supplied, the callback was called with an error, and no success was
\* reported.
C7_EveryFailureReported ==
    \A p \in Procs :
        (inv[p].pc = "done" /\ inv[p].ret = "false" /\ inv[p].hasCallback) =>
            /\ \E i \in 1..Len(inv[p].callbacks) :
                   inv[p].callbacks[i].kind = "error"
            /\ \A i \in 1..Len(inv[p].callbacks) :
                   inv[p].callbacks[i].kind # "success"

\* C8 as claimed: an invocation cancelled while decimals() is outstanding
\* does not wait forever: unless the provider answers after all (the
\* invocation goes on to account.execute), it ends as a failure that
\* submitted no transfer.
C8_CancelEndsInvocation ==
    (inv[1].cancelled /\ inv[1].pc = "decimals") ~>
        \/ inv[1].pc = "done" /\ inv[1].ret = "false" /\ inv[1].calls.execute = 0
        \/ inv[1].pc = "execute"

\* C9 as claimed: the bookkeeping handler hands at most one transfer to
\* account.execute for each recipient address and userId.
C9_OneTransferPerRecipientAndUser ==
    \A i, j \in 1..Len(submitted) :
        (/\ i # j
         /\ submitted[i].hv = "book"
         /\ submitted[j].hv = "book"
         /\ submitted[i].recipient = submitted[j].recipient)
            => submitted[i].userId # submitted[j].userId

AddressAt(s, i) ==
    i + AddrLen - 1 <= Len(s) /\ IsHexAddress(SubSeq(s, i, i + AddrLen - 1))

HasAddress(s) == \E i \in 1..Len(s) : AddressAt(s, i)

\* a is the first address in s
FirstAddress(s, a) ==
    \E i \in 1..Len(s) :
        /\ AddressAt(s, i)
        /\ \A j \in 1..(i - 1) : ~AddressAt(s, j)
        /\ a = SubSeq(s, i, i + AddrLen - 1)

\* C11: an invocation whose recent messages hold no "0x" and 64 hexadecimal
\* characters returns false having called neither getRecipient,
\* addRecipient, decimals() nor account.execute, and its steps leave the
\* database and the submitted transfers as they were; an invocation whose
\* messages hold one has the first of them as content.recipient, whatever
\* recipient was extracted, and sends the transfer there.
C11_NoAddressNoEffectFirstAddressWins ==
    /\ [](\A p \in Procs :
            /\ ~HasAddress(inv[p].recentMessages) =>
                   /\ inv[p].pc \in {"idle", "generate", "done"}
                   /\ inv[p].calls = NoCalls
                   /\ inv[p].pc = "done" => inv[p].ret = "false"
            /\ (HasAddress(inv[p].recentMessages)
                    /\ inv[p].pc \notin {"idle", "generate"}) =>
                   /\ FirstAddress(inv[p].recentMessages,
                                   inv[p].content.recipient.s)
                   /\ Executing(p) =>
                          FirstAddress(inv[p].recentMessages, inv[p].to))
    /\ [][\A p \in Procs :
            (inv'[p] # inv[p] /\ ~HasAddress(inv'[p].recentMessages)) =>
                db' = db /\ submitted' = submitted]_vars

\* a transfer handed to account.execute for the first of the two addresses
\* of the messages, after an extraction that named another recipient (the
\* extraction with a starkName is the one whose recipient is AddrB)
C11_FirstAddressOverridesExtracted ==
    \E p \in Procs :
        /\ inv[p].pc = "execute"
        /\ inv[p].recentMessages = MsgTwo
        /\ inv[p].to = AddrA
        /\ inv[p].to # AddrB
        /\ Supplied(inv[p].content.starkName)

\* an invocation without an address in its messages has returned
C11_NoAddressReturned ==
    \E p \in Procs :
        /\ inv[p].pc = "done"
        /\ inv[p].recentMessages = MsgNone
        /\ inv[p].ret = "false"

\* the database holds a record for the recipient and the user
Recorded(recipient, userId) ==
    \E row \in db : row.recipient = recipient /\ row.userId = userId

\* C12: in the bookkeeping handler the record of the recipient is in the
\* database by the time the content has been validated, decimals() has been
\* called or the transfer has been handed to account.execute; no step
\* removes a record; and an invocation that finds the record of its
\* recipient and user returns false at once, without addRecipient and
\* without a transfer.
C12_RecordedBeforeValidationAndKept ==
    /\ [](\A p \in Procs :
            (/\ inv[p].hv = "book"
             /\ \/ inv[p].calls.decimals > 0
                \/ inv[p].callbacks # <<>>
                \/ Executing(p)) =>
                Recorded(inv[p].content.recipient.s, inv[p].userId))
    /\ [][db \subseteq db']_vars
    /\ [][\A p \in Procs :
            (/\ inv[p].hv = "book"
             /\ inv[p].pc = "getRecipient"
             /\ Recorded(inv[p].content.recipient.s, inv[p].userId)
             /\ inv'[p] # inv[p]) =>
                /\ inv'[p].pc = "done"
                /\ inv'[p].ret = "false"
                /\ inv'[p].calls.addRecipient = 0
                /\ inv'[p].calls.decimals = 0
                /\ inv'[p].calls.execute = 0
                /\ submitted' = submitted
                /\ db' = db]_vars

\* a second invocation was turned away by the record that a first one wrote
\* before its content (amount true) failed validation: a record, and no
\* transfer was ever handed to account.execute
C12_TurnedAwayByRecordOfFailedInvocation ==
    \E p \in Procs :
        /\ inv[p].hv = "book"
        /\ inv[p].pc = "done"
        /\ inv[p].ret = "false"
        /\ inv[p].calls.getRecipient = 1
        /\ inv[p].calls.addRecipient = 0
        /\ \E row \in db :
              /\ row.recipient = inv[p].content.recipient.s
              /\ row.userId = inv[p].userId
              /\ row.amount = JsBoolean(TRUE)
        /\ submitted = <<>>

====
